---- MODULE Spec2Model ----
(***************************************************************************)
(* A model of the M-Pesa statement analyzer's classification engine:       *)
(* TransactionCategorizer (transaction_categorizer.py), its entity         *)
(* normalizers, the ordered match/case rule chain of                       *)
(* categorize_transaction, and the category store filled by                *)
(* categorize_transactions.                                                *)
(*                                                                         *)
(* Python strings are TLA+ strings (sequences of characters).  A Python    *)
(* value that may be a str, None, NaN, a bool, a number or a tuple is a    *)
(* record [t, v, w, n]: t is the type tag, v the text (or first tuple      *)
(* element), w the second tuple element, n the number.                     *)
(***************************************************************************)
EXTENDS Integers, Sequences, FiniteSets, TLC

VARIABLES
    row,        \* the row handed to the last categorize_transaction call
    out,        \* its outcome: [called, raised, data]
    categories, \* self.categories of the long-lived categorizer
    input,      \* df_clean of the last categorize_transactions call
    ret,        \* what that call gave its caller: [kind, via, map]
    before,     \* categories when that call was entered (history)
    processed,  \* number of rows handed to categorize_transactions so far
    summary,    \* what get_category_summary gave for ret's mapping: [kind, rows]
    call,       \* the last call of a text function: [fn, arg, raised, first, second]
    prevcall,   \* the call before it, if this call was given its first element (history)
    session,    \* st.session_state of the dashboard: the two toggles and "disable"
    selection,  \* the values of the date-range and month widgets
    loaded,     \* what categorize_data gave the dashboard: [kind, map]
    filtered,   \* the last filter_categorized_data call: its arguments and result
    analysis    \* how the dashboard's unpacking of the Analyzer's tuples went

storeVars == <<row, out, categories, input, ret, before, processed, summary>>
textVars == <<call, prevcall>>
dashVars == <<session, selection, loaded, filtered, analysis>>

vars == <<row, out, categories, input, ret, before, processed, summary,
          call, prevcall, session, selection, loaded, filtered, analysis>>

---------------------------------------------------------------------------
(* Python values *)

PyStr(s) == [t |-> "str", v |-> s, w |-> "", n |-> 0]
PyBool(b) == [t |-> "bool", v |-> IF b THEN "True" ELSE "False", w |-> "", n |-> 0]
PyNum(k) == [t |-> "num", v |-> "", w |-> "", n |-> k]
PyNone == [t |-> "None", v |-> "", w |-> "", n |-> 0]
PyNaN == [t |-> "nan", v |-> "", w |-> "", n |-> 0]
PyEmptyTuple == [t |-> "tuple0", v |-> "", w |-> "", n |-> 0]
PyPair(a, b) == [t |-> "tuple2", v |-> a, w |-> b, n |-> 0]
\* a pandas Timestamp, h hours into day d of 2024 (day 1 is 1 January): n is
\* the number of hours since the midnight before day 0
PyTimeAt(d, h) == [t |-> "time", v |-> "", w |-> "", n |-> 24 * d + h]
\* a Timestamp at 10:00 on day d, and the missing timestamp NaT
PyTime(d) == PyTimeAt(d, 10)
PyNaT == [t |-> "NaT", v |-> "", w |-> "", n |-> 0]
\* a key the dict does not hold
Absent == [t |-> "absent", v |-> "", w |-> "", n |-> 0]

\* str(x)
Str(x) == CASE x.t = "str" -> x.v
            [] x.t = "None" -> "None"
            [] x.t = "nan" -> "nan"
            [] x.t = "bool" -> x.v
            [] OTHER -> "()"

---------------------------------------------------------------------------
(* str methods, character by character *)

UpperChars == "ABCDEFGHIJKLMNOPQRSTUVWXYZ"
LowerChars == "abcdefghijklmnopqrstuvwxyz"
DigitChars == "0123456789"

Ch(s, i) == SubSeq(s, i, i)

CharsOf(alphabet) == {Ch(alphabet, i) : i \in 1..Len(alphabet)}

IndexIn(alphabet, c) == CHOOSE i \in 1..Len(alphabet) : Ch(alphabet, i) = c

UpperSet == CharsOf(UpperChars)
LowerSet == CharsOf(LowerChars)
DigitSet == CharsOf(DigitChars)


IsUpperChar(c) == c \in UpperSet
IsLowerChar(c) == c \in LowerSet
LowerChar(c) == IF IsUpperChar(c) THEN Ch(LowerChars, IndexIn(UpperChars, c)) ELSE c
UpperChar(c) == IF IsLowerChar(c) THEN Ch(UpperChars, IndexIn(LowerChars, c)) ELSE c

RECURSIVE Lower(_)
\* s.lower()
Lower(s) == IF s = "" THEN "" ELSE LowerChar(Ch(s, 1)) \o Lower(Tail(s))

RECURSIVE TitleFrom(_, _)
TitleFrom(s, prevCased) ==
    IF s = "" THEN ""
    ELSE LET c == Ch(s, 1)
             cased == IsUpperChar(c) \/ IsLowerChar(c)
             d == IF ~cased THEN c
                  ELSE IF prevCased THEN LowerChar(c) ELSE UpperChar(c)
         IN d \o TitleFrom(Tail(s), cased)

\* s.title()
Title(s) == TitleFrom(s, FALSE)

\* s.isnumeric()
IsNumeric(s) == s # "" /\ \A i \in 1..Len(s) : Ch(s, i) \in DigitSet

\* s[0:n]
Slice0(s, n) == SubSeq(s, 1, IF n < Len(s) THEN n ELSE Len(s))

\* p == s[i : i+len(p)]   (i is 1-based)
StartsAt(s, i, p) == i >= 1 /\ i + Len(p) - 1 <= Len(s) /\ SubSeq(s, i, i + Len(p) - 1) = p

\* p in s
Contains(p, s) == \E i \in 1..(Len(s) + 1) : StartsAt(s, i, p)

\* s[i..j] is all whitespace (1-based, inclusive)
AllSpaces(s, i, j) == \A k \in i..j : k \in 1..Len(s) /\ Ch(s, k) = " "

RECURSIVE LStrip(_)
LStrip(s) == IF s # "" /\ Ch(s, 1) = " " THEN LStrip(Tail(s)) ELSE s

RECURSIVE RStrip(_)
RStrip(s) == IF s # "" /\ Ch(s, Len(s)) = " " THEN RStrip(SubSeq(s, 1, Len(s) - 1)) ELSE s

\* s.strip()
Strip(s) == RStrip(LStrip(s))

\* least element of a non-empty set of integers
Least(S) == CHOOSE m \in S : \A n \in S : m <= n

---------------------------------------------------------------------------
(* Entity normalizers.  Inside categorize_transaction the entity is always *)
(* a str (entity = str(row["entity"])), so pd.isna(entity) is false and    *)
(* the first guard reduces to entity == "".                                *)
(* A normalizer's outcome is [raised, name, account]: raised is TRUE when  *)
(* the Python code throws (IndexError).                                    *)

Returned(name, account) == [raised |-> FALSE, name |-> name, account |-> account]
Raised == [raised |-> TRUE, name |-> "", account |-> ""]

\* faulty variant: every entity is taken for a masked one
HasMaskAlways(entity) == TRUE

\* self.masked_phone_pattern.search(entity), the pattern being \*+
HasMask(entity) == Contains("*", entity)

\* position of the first " " of s, 0 if there is none
FirstSpace(s) == IF Contains(" ", s) THEN Least({i \in 1..Len(s) : Ch(s, i) = " "}) ELSE 0

process_masked_phone(entity) ==
    IF entity = "" THEN Returned(entity, "")
    ELSE IF HasMask(entity)
         THEN LET sp == FirstSpace(entity)
              IN IF sp = 0 THEN Raised
                 ELSE Returned(Title(SubSeq(entity, sp + 1, Len(entity))),
                               Title(SubSeq(entity, 1, sp - 1)))
         ELSE Returned(Title(entity), "")

\* p == s[i : i+len(p)].lower()   (i is 1-based): a match under IGNORECASE
LowerAt(s, i, p) ==
    i >= 1 /\ i + Len(p) - 1 <= Len(s) /\ Lower(SubSeq(s, i, i + Len(p) - 1)) = p

\* business_payment_pattern's first alternative \s+(?:via).*?(?:is)\s+(.*),
\* IGNORECASE, tried with group 1 == s[0 : i-1]: the ends j of the "is" it can use
ViaIsEnds(s, i) ==
    {j \in 1..Len(s) :
        /\ StartsAt(s, i, " ")
        /\ LowerAt(s, j, "is")
        /\ StartsAt(s, j + 2, " ")
        /\ \E k \in 1..Len(s) :
               /\ AllSpaces(s, i, i + k - 1)
               /\ LowerAt(s, i + k, "via")
               /\ j >= i + k + 3}

\* business_payment_pattern.search(entity): (.*?) is lazy, so group 1 is the
\* shortest prefix after which the first alternative, or else $, matches
process_business_and_account(entity) ==
    IF entity = "" THEN Returned(entity, "")
    ELSE LET starts == {i \in 1..Len(entity) : ViaIsEnds(entity, i) # {}}
         IN IF starts = {} THEN Returned(Strip(entity), "")
            ELSE LET i == Least(starts)
                     j == Least(ViaIsEnds(entity, i))
                 IN Returned(Strip(SubSeq(entity, 1, i - 1)),
                             Strip(SubSeq(entity, j + 2, Len(entity))))

\* paybill_pattern's first alternative \s+Acc\.\s+(.*) tried with group 1 ==
\* s[0 : i-1]: the positions k of the "Acc." it can use
AccAt(s, i) ==
    {k \in 1..Len(s) :
        /\ k > i
        /\ AllSpaces(s, i, k - 1)
        /\ StartsAt(s, k, "Acc.")
        /\ StartsAt(s, k + 4, " ")}

\* paybill_pattern.search(entity), r"(.*?)(?:\s+Acc\.\s+(.*)|$)"
extract_paybill_details(entity) ==
    IF entity = "" THEN Returned(entity, "")
    ELSE LET starts == {i \in 1..Len(entity) : AccAt(entity, i) # {}}
         IN IF starts = {} THEN Returned(Strip(entity), "")
            ELSE LET i == Least(starts)
                     k == Least(AccAt(entity, i))
                 IN Returned(Strip(SubSeq(entity, 1, i - 1)),
                             Strip(SubSeq(entity, k + 4, Len(entity))))

---------------------------------------------------------------------------
(* load_wrangle.py: split_details and split_type *)

\* pd.isna(x) for a scalar cell
IsNa(x) == x.t \in {"nan", "None", "NaT"}

\* the positions h of a "-" the pattern (.*?)(?<!\S)(?: *)-(?: *)\s(?=\S)(.*)
\* can use as separator: the start of s or whitespace before it, whitespace
\* after it, and a non-blank character somewhere behind that
Separators(s) ==
    {h \in 1..Len(s) :
        /\ Ch(s, h) = "-"
        /\ (h = 1 \/ Ch(s, h - 1) = " ")
        /\ StartsAt(s, h + 1, " ")
        /\ \E j \in (h + 2)..Len(s) : Ch(s, j) # " "}

\* faulty variant: the separator furthest to the right
ChosenSeparatorLast(S) == CHOOSE h \in S : \A g \in S : g <= h

\* re.search with the lazy group (.*?): the separator furthest to the left
ChosenSeparator(S) == Least(S)

\* split_details(details_text): the pair it returns
split_details(details_text) ==
    LET s == Str(details_text)
    IN IF Separators(s) = {} THEN <<details_text, details_text>>
       ELSE LET h == ChosenSeparator(Separators(s))
            IN <<PyStr(Strip(SubSeq(s, 1, h - 1))),
                 PyStr(Strip(SubSeq(s, h + 1, Len(s))))>>

RECURSIVE SplitSpace(_)
\* s.split(" "): the pieces between single spaces, empty pieces included
SplitSpace(s) ==
    IF FirstSpace(s) = 0 THEN <<s>>
    ELSE <<SubSeq(s, 1, FirstSpace(s) - 1)>>
             \o SplitSpace(SubSeq(s, FirstSpace(s) + 1, Len(s)))

RECURSIVE JoinNoSpace(_)
\* faulty variant: the pieces joined without the space
JoinNoSpace(pieces) ==
    IF pieces = <<>> THEN "" ELSE Head(pieces) \o JoinNoSpace(Tail(pieces))

RECURSIVE JoinSpace(_)
\* " ".join(pieces)
JoinSpace(pieces) ==
    IF pieces = <<>> THEN ""
    ELSE IF Len(pieces) = 1 THEN Head(pieces)
    ELSE Head(pieces) \o " " \o JoinSpace(Tail(pieces))

\* split_list[a:b] of Python, a and b counted from 0
ListSlice(list, a, b) ==
    SubSeq(list, a + 1, IF b < Len(list) THEN b ELSE Len(list))

\* split_type(transaction_type): the two cells of the Series it returns
split_type(transaction_type) ==
    IF IsNa(transaction_type) THEN <<"", "">>
    ELSE LET split_list == SplitSpace(Str(transaction_type))
         IN <<JoinSpace(ListSlice(split_list, 0, 4)),
              JoinSpace(ListSlice(split_list, 4, Len(split_list)))>>

---------------------------------------------------------------------------
(* categorize_transaction *)

\* the keys of self.categories after __init__, in declaration order
DefaultCategories ==
    <<"ReceivedMoney", "ReceivedMoney_business", "Deposit", "Pochi_in", "Reversals",
      "HustlerFund", "KCB", "MShwari", "businessPayment_fromOtherSME", "SendMoney",
      "businessPayment_toCustomer", "Overdraft", "BuyGoodsPayments", "PayBillPayments",
      "Pochi", "CashWithdrawals", "airtime_bundle", "NoDetails", "uncategorized">>

CategoryNames == {DefaultCategories[i] : i \in 1..Len(DefaultCategories)}

\* the guard of the k-th case arm of the match statement, on
\* (x, y, z) == (details, type_desc, type_class), all lowercased
Guard(k, x, y, z) ==
    CASE k = 1 -> z = "funds received from"
      [] k = 2 -> \/ z = "merchant customer payment from"
                  \/ Contains("salary payment from", z)
                  \/ Contains("promotion payment from", z)
                  \/ Contains("business payment from", z)
                  \/ Contains("funds received from business", z)
      [] k = 3 -> Contains("deposit of", x)
      [] k = 4 -> z = "customer payment to small" /\ y = "business from"
      [] k = 5 -> Contains("reversal", x)
      [] k = 6 -> Contains("term loan", x)
      [] k = 7 -> Contains("kcb m-pesa", x)
      [] k = 8 -> Contains("m-shwari", x)
      [] k = 9 -> /\ Contains("small business transfer to", z)
                  /\ Contains("other small business from", y)
      [] k = 10 -> \/ Contains("customer transfer", x)
                   \/ Contains("send money", x)
                   \/ Contains("transfer to other small business to", x)
      [] k = 11 -> z = "small business payment to"
      [] k = 12 -> Contains("overdraft", x) \/ Contains("od loan", x)
      [] k = 13 -> Contains("merchant payment", x) \/ Contains("pay merchant", x)
      [] k = 14 -> Contains("pay bill", x)
      [] k = 15 -> Contains("customer payment to small business to", x)
      [] k = 16 -> Contains("withdrawal", x) /\ ~(Slice0(y, 4) = "from")
      [] k = 17 -> \/ Contains("airtime", x)
                   \/ Contains("bundles", y)
                   \/ Contains("bundle", x)
      [] k = 18 -> x = "nan"
      [] OTHER -> TRUE

\* faulty variant: the withdrawal arm tried before the pay-bill arm
ArmOrderWithdrawalFirst ==
    <<1, 2, 3, 4, 5, 6, 7, 8, 9, 10, 11, 12, 13, 16, 15, 14, 17, 18, 19>>

\* faulty variant: the catch-all arm tried before the NoDetails arm
ArmOrderFallbackFirst ==
    <<1, 2, 3, 4, 5, 6, 7, 8, 9, 10, 11, 12, 13, 14, 15, 16, 17, 19, 18>>

\* faulty variant: the NoDetails arm tried first
ArmOrderNoDetailsFirst ==
    <<18, 1, 2, 3, 4, 5, 6, 7, 8, 9, 10, 11, 12, 13, 14, 15, 16, 17, 19>>

\* faulty variant: the business-payment arm tried after the arms 3 to 18
ArmOrderBusinessLate ==
    <<1, 3, 4, 5, 6, 7, 8, 9, 10, 11, 12, 13, 14, 15, 16, 17, 18, 2, 19>>

\* faulty variant: the match statement without the withdrawal arm
ArmOrderSkipsWithdrawal ==
    <<1, 2, 3, 4, 5, 6, 7, 8, 9, 10, 11, 12, 13, 14, 15, 17, 18, 19>>

\* the order in which the match statement tries its case arms
ArmOrder == <<1, 2, 3, 4, 5, 6, 7, 8, 9, 10, 11, 12, 13, 14, 15, 16, 17, 18, 19>>

\* the arm the match statement executes: the first one, in ArmOrder, whose
\* guard holds (the last arm, case _, always matches)
MatchedArm(x, y, z) ==
    ArmOrder[Least({n \in 1..Len(ArmOrder) : Guard(ArmOrder[n], x, y, z)})]

\* faulty variant: processed_entity initialised from the receipt number
BaseDataReceiptAsEntity(r, entity) ==
    [receipt_no |-> r.receipt_no, date_time |-> r.date_time, details |-> r.details,
     paid_in |-> r.paid_in, withdrawn |-> r.withdrawn, entity |-> PyStr(entity),
     type_class |-> r.type_class, type_desc |-> r.type_desc,
     month |-> r.month, week |-> r.week,
     processed_entity |-> r.receipt_no, is_charge |-> PyBool(FALSE),
     category |-> PyNone, subcategory |-> PyNone, account_no |-> Absent]

\* faulty variant: transaction_data built with an empty account_no
BaseDataWithAccount(r, entity) ==
    [receipt_no |-> r.receipt_no, date_time |-> r.date_time, details |-> r.details,
     paid_in |-> r.paid_in, withdrawn |-> r.withdrawn, entity |-> PyStr(entity),
     type_class |-> r.type_class, type_desc |-> r.type_desc,
     month |-> r.month, week |-> r.week,
     processed_entity |-> PyStr(entity), is_charge |-> PyBool(FALSE),
     category |-> PyNone, subcategory |-> PyNone, account_no |-> PyStr("")]

\* transaction_data as first built (lines 136-151); account_no is not a key yet
BaseData(r, entity) ==
    [receipt_no |-> r.receipt_no, date_time |-> r.date_time, details |-> r.details,
     paid_in |-> r.paid_in, withdrawn |-> r.withdrawn, entity |-> PyStr(entity),
     type_class |-> r.type_class, type_desc |-> r.type_desc,
     month |-> r.month, week |-> r.week,
     processed_entity |-> PyStr(entity), is_charge |-> PyBool(FALSE),
     category |-> PyNone, subcategory |-> PyNone, account_no |-> Absent]

Ok(data) == [called |-> TRUE, raised |-> FALSE, data |-> data]
\* the call threw: data is transaction_data as it stood, which no caller sees
Threw(data) == [called |-> TRUE, raised |-> TRUE, data |-> data]

\* faulty variant: the business strategy whatever the entity starts with
SelectNormalizerBusinessOnly(entity) == process_business_and_account(entity)

\* "self.process_masked_phone(entity) if entity[0:1].isnumeric()
\*  else self.process_business_and_account(entity)"
SelectNormalizer(entity) ==
    IF IsNumeric(Slice0(entity, 1)) THEN process_masked_phone(entity)
    ELSE process_business_and_account(entity)

\* faulty variant: the counterparty arms flag the record as a charge
CounterpartyArmCharged(data, category, entity) ==
    LET d == [data EXCEPT !.category = PyStr(category), !.is_charge = PyBool(TRUE)]
        n == SelectNormalizer(entity)
    IN IF n.raised THEN Threw(d)
       ELSE Ok([d EXCEPT !.processed_entity = PyStr(n.name),
                         !.account_no = PyStr(n.account)])

\* the body shared by arms 1, 2, 4, 9 and 11
CounterpartyArm(data, category, entity) ==
    LET d == [data EXCEPT !.category = PyStr(category), !.is_charge = PyBool(FALSE)]
        n == SelectNormalizer(entity)
    IN IF n.raised THEN Threw(d)
       ELSE Ok([d EXCEPT !.processed_entity = PyStr(n.name),
                         !.account_no = PyStr(n.account)])

\* faulty variant: element [1] of the pair, the phone fragment, is kept
MaskedNameArmFragment(d, entity) ==
    LET n == process_masked_phone(entity)
    IN IF n.raised THEN Threw(d) ELSE Ok([d EXCEPT !.processed_entity = PyStr(n.account)])

\* "transaction_data['processed_entity'] = self.process_masked_phone(entity)[0]"
MaskedNameArm(d, entity) ==
    LET n == process_masked_phone(entity)
    IN IF n.raised THEN Threw(d) ELSE Ok([d EXCEPT !.processed_entity = PyStr(n.name)])

\* faulty variant: the NoDetails arm forgets to set the category
NoDetailsArmUnset(data) ==
    Ok([data EXCEPT !.is_charge = PyStr(""), !.subcategory = PyStr("")])

\* the special-case arm "case (x, y, z) if x == 'nan'"
NoDetailsArm(data) ==
    Ok([data EXCEPT !.category = PyStr("NoDetails"), !.is_charge = PyStr(""),
                    !.subcategory = PyStr("")])

\* the body of case arm k
Arm(k, data, entity, x, y, z) ==
    CASE k = 1 -> CounterpartyArm(data, "ReceivedMoney", entity)
      [] k = 2 -> CounterpartyArm(data, "ReceivedMoney_business", entity)
      [] k = 3 -> Ok([data EXCEPT !.category = PyStr("Deposit"),
                                  !.subcategory = PyStr("deposit")])
      [] k = 4 -> CounterpartyArm(data, "Pochi_in", entity)
      [] k = 5 -> Ok([data EXCEPT !.category = PyStr("Reversals"),
                                  !.subcategory = PyEmptyTuple])
      [] k = 6 -> Ok([data EXCEPT !.category = PyStr("HustlerFund"),
                                  !.subcategory = PyStr(y),
                                  !.is_charge = PyBool(Contains("charge", z))])
      [] k = 7 -> Ok([data EXCEPT !.category = PyStr("KCB"), !.subcategory = PyStr(y)])
      [] k = 8 -> Ok([data EXCEPT !.category = PyStr("MShwari"),
                                  !.subcategory = PyStr("mshwari")])
      [] k = 9 -> CounterpartyArm(data, "businessPayment_fromOtherSME", entity)
      [] k = 10 -> LET c == Contains("charge", y)
                   IN MaskedNameArm([data EXCEPT
                          !.category = PyStr("SendMoney"),
                          !.is_charge = PyBool(c),
                          !.subcategory = PyStr(IF c THEN "charge" ELSE "transfer")],
                          entity)
      [] k = 11 -> CounterpartyArm(data, "businessPayment_toCustomer", entity)
      [] k = 12 -> Ok([data EXCEPT !.category = PyStr("Overdraft"),
                                   !.subcategory = PyStr("overdraft")])
      [] k = 13 -> LET c == Contains("charge", z)
                   IN Ok([data EXCEPT !.category = PyStr("BuyGoodsPayments"),
                                      !.is_charge = PyBool(c),
                                      !.subcategory = PyStr(IF c THEN "charge" ELSE "")])
      [] k = 14 -> LET c == Contains("charge", z)
                       n == extract_paybill_details(entity)
                   IN Ok([data EXCEPT !.category = PyStr("PayBillPayments"),
                                      !.is_charge = PyBool(c),
                                      !.subcategory = PyStr(IF c THEN "charge" ELSE ""),
                                      !.processed_entity = PyStr(n.name),
                                      !.account_no = PyStr(n.account)])
      [] k = 15 -> MaskedNameArm([data EXCEPT !.category = PyStr("Pochi"),
                                              !.subcategory = PyStr("pochi")], entity)
      [] k = 16 -> LET c == Contains("charge", x)
                   IN Ok([data EXCEPT !.category = PyStr("CashWithdrawals"),
                                      !.is_charge = PyBool(c),
                                      !.subcategory =
                                          PyStr(IF c THEN "charge" ELSE "withdrawal")])
      [] k = 17 -> MaskedNameArm([data EXCEPT !.category = PyStr("airtime_bundle"),
                                              !.is_charge = PyBool(FALSE),
                                              !.subcategory = PyStr("purchase")], entity)
      [] k = 18 -> NoDetailsArm(data)
      [] OTHER -> LET d == [data EXCEPT !.category = PyStr("uncategorized"),
                                        !.subcategory = PyStr("unknown")]
                  IN IF IsNumeric(Slice0(entity, 2))
                     THEN LET n == process_masked_phone(entity)
                          IN IF n.raised THEN Threw(d)
                             ELSE Ok([d EXCEPT !.processed_entity =
                                                   PyPair(n.name, n.account)])
                     ELSE Ok([d EXCEPT !.processed_entity = PyStr("non")])

\* the fields categorize_transaction reads off the row to classify it
Lowered(v) == Lower(Str(v))

\* TransactionCategorizer.categorize_transaction(self, row); self is the
\* categorizer's self.categories
categorize_transaction(self, r) ==
    LET type_class == Lowered(r.type_class)
        type_desc == Lowered(r.type_desc)
        entity == Str(r.entity)
        details == Lowered(r.details)
    IN Arm(MatchedArm(details, type_desc, type_class), BaseData(r, entity), entity,
           details, type_desc, type_class)

---------------------------------------------------------------------------
(* Input rows *)

\* a row of df_clean
MakeRow(receipt, details, type_class, type_desc, entity, paid_in, withdrawn) ==
    [receipt_no |-> PyStr(receipt), date_time |-> PyTime(5),
     details |-> details, paid_in |-> PyNum(paid_in), withdrawn |-> PyNum(withdrawn),
     entity |-> entity, type_class |-> type_class, type_desc |-> type_desc,
     month |-> PyStr("January_24"), week |-> PyStr("01_24")]

\* phrases a statement's details column is built from
DetailFrags ==
    <<"nan", "Deposit of Funds", "Reversal", "Term Loan", "KCB M-PESA", "M-Shwari",
      "Customer Transfer to", "OverDraft", "Merchant Payment", "Pay Bill",
      "Customer Payment to Small Business to", "Withdrawal", "Charge", "Airtime">>

\* at most this many phrases in one details text
MaxFrags == 2

RECURSIVE JoinFrags(_)
\* the phrases numbered in S, in order, joined by single spaces
JoinFrags(S) ==
    IF S = {} THEN ""
    ELSE LET i == Least(S)
         IN IF S = {i} THEN DetailFrags[i]
            ELSE DetailFrags[i] \o " " \o JoinFrags(S \ {i})

\* details texts of at most k phrases
DetailsUpTo(k) ==
    {PyStr(JoinFrags(S)) :
        S \in {T \in SUBSET (1..Len(DetailFrags)) : Cardinality(T) <= k}}

\* a details cell: a text, or a missing value (NaN from the PDF table, None)
DetailsPool == DetailsUpTo(MaxFrags) \cup {PyNaN, PyNone}

TypeClassPool ==
    {PyStr(""), PyStr("Funds Received From"), PyStr("funds received from business"),
     PyStr("customer payment to small"), PyStr("small business transfer to"),
     PyStr("small business payment to"), PyStr("pay bill charge"), PyNaN}

TypeDescPool ==
    {PyStr(""), PyStr("Business From"), PyStr("other small business from"),
     PyStr("charge"), PyStr("from agent"), PyStr("bundles"), PyNone}

EntityPool ==
    {PyStr(""), PyStr("John Doe"), PyStr("2547***123 jane roe"), PyStr("07***123"),
     PyStr("Kenya Power Acc. 123456"), PyStr("kplc via api is 4455"), PyNaN}

\* rows whose details combine several phrases, under a few type/entity cells
WideDetailRows ==
    {MakeRow("R1", d, tc, td, e, 0, 100) :
        d \in DetailsPool,
        tc \in {PyStr(""), PyStr("Funds Received From")},
        td \in {PyStr(""), PyStr("from agent")},
        e \in {PyStr("John Doe"), PyStr("07***123")}}

\* rows of at most one phrase under every type/entity cell
WideTypeRows ==
    {MakeRow("R1", d, tc, td, e, 0, 100) :
        d \in DetailsUpTo(1) \cup {PyNaN, PyNone},
        tc \in TypeClassPool, td \in TypeDescPool, e \in EntityPool}

\* rows of the payment types rule 2 names, the phrase in either type column
PaymentRows ==
    {MakeRow("R1", d, tc, td, e, 100, 0) :
        d \in DetailsUpTo(1) \cup {PyNaN},
        tc \in {PyStr(""), PyStr("Funds Received From"),
                PyStr("Merchant Customer Payment from"), PyStr("Salary Payment from"),
                PyStr("Promotion Payment from 4455"), PyStr("Business Payment from")},
        td \in {PyStr(""), PyStr("Salary Payment from"), PyStr("promotion payment from"),
                PyStr("Business Payment from 4455")},
        e \in {PyStr("John Doe"), PyStr("2547***123 jane roe")}}

\* the rows of the documented example scenarios
ScenarioRows ==
    {MakeRow("R1", PyStr(""), PyStr("funds received from"), PyStr(""),
             PyStr("John Doe"), 100, 0),
     MakeRow("R1", PyStr("Pay Bill Online to Kenya Power Acc. 123456"), PyStr("pay bill"),
             PyStr(""), PyStr("Kenya Power Acc. 123456"), 0, 100),
     MakeRow("R1", PyStr("Customer Transfer to 254***123 Jane Roe"),
             PyStr("customer transfer"), PyStr("charge"), PyStr("254***123 Jane Roe"),
             0, 100),
     MakeRow("R1", PyStr("Airtime Purchase"), PyStr(""), PyStr("bundles"),
             PyStr("Airtime Purchase"), 0, 100)}

Rows == WideDetailRows \cup WideTypeRows \cup PaymentRows \cup ScenarioRows

---------------------------------------------------------------------------
(* The categorizer's state and its operations *)

\* self.categories after __init__: every default category maps to []
InitCategories == [c \in CategoryNames |-> <<>>]

NoRow == MakeRow("", PyNone, PyNone, PyNone, PyNone, 0, 0)
NotCalled == [called |-> FALSE, raised |-> FALSE, data |-> BaseData(NoRow, "")]
NoReturn == [kind |-> "none", via |-> "none", map |-> InitCategories]
NoSummary == [kind |-> "none", rows |-> <<>>]

\* no text function called yet
NoCall == [fn |-> "none", arg |-> PyNone, raised |-> FALSE, first |-> PyNone, second |-> PyNone]

\* st.session_state after initialize_session_state; the toggles' keys
\* date_filter and month_filter read as off until a toggle is switched
SessionDefaults ==
    [date_filter |-> FALSE, month_filter |-> FALSE,
     disable |-> [date |-> FALSE, month |-> FALSE]]

\* neither the date-range nor the month widget is shown
NoSelection == [date_range |-> <<>>, months |-> {}]

\* no statement processed yet
NotLoaded == [kind |-> "none", df |-> <<>>, map |-> InitCategories]

\* filter_categorized_data not called yet
NotFiltered == [called |-> FALSE, date_filter |-> <<>>, month_filter |-> {},
                input |-> InitCategories, map |-> InitCategories]

\* the Analyzer's methods not called yet
NotAnalysed == [kind |-> "none", at |-> "", data |-> InitCategories]

\* one call categorizer.categorize_transaction(row) on the row drawn by Init
CategorizeTransaction ==
    /\ ~out.called
    /\ out' = categorize_transaction(categories, row)
    /\ UNCHANGED <<row, categories, input, ret, before, processed, summary, textVars, dashVars>>

Init ==
    /\ row \in Rows
    /\ out = NotCalled
    /\ categories = InitCategories
    /\ input = <<>>
    /\ ret = NoReturn
    /\ before = InitCategories
    /\ processed = 0
    /\ summary = NoSummary
    /\ call = NoCall
    /\ prevcall = NoCall
    /\ session = SessionDefaults
    /\ selection = NoSelection
    /\ loaded = NotLoaded
    /\ filtered = NotFiltered
    /\ analysis = NotAnalysed

Next == CategorizeTransaction

Spec == Init /\ [][Next]_vars

---------------------------------------------------------------------------
(* The category store: categorize_transactions on a long-lived categorizer *)
(* and through the convenience function, which builds its own.             *)

\* the loop "for _, row in df_clean.iterrows()" from row i on: it stops at
\* the first row on which categorize_transaction raises, keeping what it
\* appended to self.categories until then
RECURSIVE RunLoop(_, _, _)
RECURSIVE LoopBody(_, _, _, _)

\* the loop "for _, row in df_clean.iterrows()" from row i on
RunLoop(cats, df_clean, i) ==
    IF i > Len(df_clean) THEN [raised |-> FALSE, categories |-> cats]
    ELSE LoopBody(cats, df_clean, i, categorize_transaction(cats, df_clean[i]))

\* the loop's body for row i, transaction_data being what
\* categorize_transaction gave: an exception leaves the loop, keeping what was
\* appended to self.categories until then
LoopBody(cats, df_clean, i, transaction_data) ==
    IF transaction_data.raised THEN [raised |-> TRUE, categories |-> cats]
    ELSE IF /\ transaction_data.data.category.t = "str"
            /\ transaction_data.data.category.v \in DOMAIN cats
         THEN RunLoop([cats EXCEPT ![transaction_data.data.category.v] =
                           Append(@, transaction_data.data)],
                      df_clean, i + 1)
         ELSE RunLoop(cats, df_clean, i + 1)

\* faulty variant: the table lists the transactions last to first
ToFrameReversed(transactions) ==
    [k \in 1..Len(transactions) |-> transactions[Len(transactions) + 1 - k]]

\* pd.DataFrame(transactions), or pd.DataFrame() for an empty list: the
\* table's rows in list order
ToFrame(transactions) == transactions

\* faulty variant: categorized_dfs gets no key for a category without
\* transactions
categorize_transactions_sparse(self, df_clean) ==
    LET loop == RunLoop(self, df_clean, 1)
    IN [raised |-> loop.raised,
        categories |-> loop.categories,
        categorized_dfs |->
            [category \in {c \in DOMAIN loop.categories : loop.categories[c] # <<>>} |->
                ToFrame(loop.categories[category])]]

\* TransactionCategorizer.categorize_transactions(self, df_clean): the
\* categorizer's self.categories afterwards, and categorized_dfs if it returns
categorize_transactions(self, df_clean) ==
    LET loop == RunLoop(self, df_clean, 1)
    IN [raised |-> loop.raised,
        categories |-> loop.categories,
        categorized_dfs |->
            [category \in DOMAIN loop.categories |-> ToFrame(loop.categories[category])]]

\* what the caller of a run gets
Outcome(run, via) ==
    IF run.raised THEN [kind |-> "raised", via |-> via, map |-> InitCategories]
    ELSE [kind |-> "mapping", via |-> via, map |-> run.categorized_dfs]

\* row r with the date_time cell pd.to_datetime(..., errors="coerce") gave it
At(r, date_time) == [r EXCEPT !.date_time = date_time]

---------------------------------------------------------------------------
(* get_category_summary *)

\* the largest member of a set of numbers
Greatest(S) == CHOOSE x \in S : \A y \in S : y <= x

RECURSIVE SumColumn(_, _)
\* df[column].sum() for the numeric columns paid_in and withdrawn
SumColumn(df, column) ==
    IF df = <<>> THEN 0 ELSE Head(df)[column].n + SumColumn(Tail(df), column)

\* the Timestamps of df["date_time"], NaT skipped as min() and max() skip it
Times(df) == {df[k].date_time.n : k \in {j \in 1..Len(df) : df[j].date_time.t = "time"}}

\* the day of 2024 a Timestamp n falls on, Timestamp.date()
DayOf(n) == n \div 24

\* the calendar of January and February 2024: a day's day of month
DayOfMonth(day) == IF day <= 31 THEN day ELSE day - 31

\* Timestamp.strftime('%Y-%m-%d') for a Timestamp n of January or February 2024
Strftime(n) ==
    (IF DayOf(n) <= 31 THEN "2024-01-" ELSE "2024-02-")
        \o Ch(DigitChars, (DayOfMonth(DayOf(n)) \div 10) + 1)
        \o Ch(DigitChars, (DayOfMonth(DayOf(n)) % 10) + 1)

\* the dict appended to summary_data for a non-empty bucket
SummaryRow(category, df) ==
    [category |-> category,
     transaction_count |-> Cardinality({df[k].receipt_no : k \in 1..Len(df)}),
     total_withdrawn |-> SumColumn(df, "withdrawn"),
     total_paid_in |-> SumColumn(df, "paid_in"),
     unique_entities |-> Cardinality({df[k].processed_entity : k \in 1..Len(df)}),
     date_range |-> Strftime(Least(Times(df))) \o " to " \o Strftime(Greatest(Times(df)))]

\* the keys of categorized_data.items() whose table passes "if len(df) > 0",
\* in the dict's order
NonEmptyKeys(categorized_data) ==
    SelectSeq(DefaultCategories,
              LAMBDA c : c \in DOMAIN categorized_data /\ Len(categorized_data[c]) > 0)

\* TransactionCategorizer.get_category_summary(self, categorized_data): the
\* rows of the summary table, unless building a row raised:
\* df['date_time'].min() is NaT when the column holds no Timestamp, and
\* NaT.strftime raises ValueError
get_category_summary(categorized_data) ==
    LET keys == NonEmptyKeys(categorized_data)
    IN IF \E i \in 1..Len(keys) : Times(categorized_data[keys[i]]) = {}
       THEN [kind |-> "raised", rows |-> <<>>]
       ELSE [kind |-> "table",
             rows |-> [i \in 1..Len(keys) |->
                          SummaryRow(keys[i], categorized_data[keys[i]])]]

\* rows of the cleaned statement handed to the store: two deposits alike in
\* all but receipt, amount and day, a transfer, a transfer to a masked number
\* without a name, and a row without details whose date did not parse
StoreRows ==
    <<MakeRow("R1", PyStr("Deposit of Funds"), PyStr("Deposit of Funds"), PyStr(""),
              PyStr("Deposit of Funds"), 500, 0),
      At(MakeRow("R2", PyStr("Deposit of Funds"), PyStr("Deposit of Funds"), PyStr(""),
                 PyStr("Deposit of Funds"), 700, 0), PyTime(7)),
      MakeRow("R3", PyStr("Send Money - 07***12 jo"), PyStr("Send Money"), PyStr(""),
              PyStr("07***12 jo"), 0, 100),
      MakeRow("R4", PyStr("Send Money - 07***12"), PyStr("Send Money"), PyStr(""),
              PyStr("07***12"), 0, 50),
      At(MakeRow("R5", PyNaN, PyStr(""), PyStr(""), PyNaN, 0, 0), PyNaT)>>

\* at most this many rows handed to categorize_transactions, over all runs
MaxRows == 2

\* sequences over S of length at most n
SeqsUpTo(S, n) == UNION {[1..k -> S] : k \in 0..n}

Batches == SeqsUpTo({StoreRows[i] : i \in 1..Len(StoreRows)}, MaxRows)

\* categorizer.categorize_transactions(df_clean) on the long-lived categorizer
CategorizeTransactions(df_clean) ==
    /\ processed + Len(df_clean) <= MaxRows
    /\ LET run == categorize_transactions(categories, df_clean)
       IN /\ categories' = run.categories
          /\ ret' = Outcome(run, "method")
    /\ input' = df_clean
    /\ before' = categories
    /\ processed' = processed + Len(df_clean)
    /\ summary' = NoSummary
    /\ UNCHANGED <<row, out, textVars, dashVars>>

\* categorize_transactions_efficiently(df_clean): a categorizer of its own,
\* dropped when the function returns or raises
CategorizeEfficiently(df_clean) ==
    /\ processed + Len(df_clean) <= MaxRows
    /\ LET run == categorize_transactions(InitCategories, df_clean)
       IN ret' = Outcome(run, "function")
    /\ input' = df_clean
    /\ before' = categories
    /\ processed' = processed + Len(df_clean)
    /\ summary' = NoSummary
    /\ UNCHANGED <<row, out, categories, textVars, dashVars>>

\* faulty variant: the call files the record it returns in its bucket
CategorizeRowAppending(r) ==
    /\ row' = r
    /\ out' = categorize_transaction(categories, r)
    /\ categories' =
           LoopBody(categories, <<r>>, 1, categorize_transaction(categories, r)).categories
    /\ UNCHANGED <<input, ret, before, processed, summary, textVars, dashVars>>

\* categorizer.categorize_transaction(r) on the long-lived categorizer
CategorizeRow(r) ==
    /\ row' = r
    /\ out' = categorize_transaction(categories, r)
    /\ UNCHANGED <<categories, input, ret, before, processed, summary, textVars, dashVars>>

\* categorizer.get_category_summary(categorized_data) on the mapping the last
\* run returned
GetCategorySummary ==
    /\ ret.kind = "mapping"
    /\ summary' = get_category_summary(ret.map)
    /\ UNCHANGED <<row, out, categories, input, ret, before, processed, textVars, dashVars>>

\* names a caller may hand to add_category: a new one and a declared one
AddedCategories == {"Fuliza", "Deposit"}

\* self.categories after add_category(category_name)
add_category(self, category_name) ==
    IF category_name \notin DOMAIN self
    THEN [c \in DOMAIN self \cup {category_name} |->
             IF c = category_name THEN <<>> ELSE self[c]]
    ELSE self

\* categorizer.add_category(category_name) on the long-lived categorizer
AddCategory(category_name) ==
    /\ categories' = add_category(categories, category_name)
    /\ UNCHANGED <<row, out, input, ret, before, processed, summary, textVars, dashVars>>

InitStore ==
    /\ row = NoRow
    /\ out = NotCalled
    /\ categories = InitCategories
    /\ input = <<>>
    /\ ret = NoReturn
    /\ before = InitCategories
    /\ processed = 0
    /\ summary = NoSummary
    /\ call = NoCall
    /\ prevcall = NoCall
    /\ session = SessionDefaults
    /\ selection = NoSelection
    /\ loaded = NotLoaded
    /\ filtered = NotFiltered
    /\ analysis = NotAnalysed

NextStore ==
    \/ \E df_clean \in Batches : CategorizeTransactions(df_clean)
    \/ \E df_clean \in Batches : CategorizeEfficiently(df_clean)
    \/ \E i \in 1..Len(StoreRows) : CategorizeRow(StoreRows[i])
    \/ GetCategorySummary

SpecStore == InitStore /\ [][NextStore]_vars

\* the store with add_category as well, on a deposit, a transfer and the
\* transfer on which categorize_transaction raises
FrameRows == {StoreRows[1], StoreRows[3], StoreRows[4]}

FrameBatches == SeqsUpTo(FrameRows, MaxRows)

NextFrame ==
    \/ \E df_clean \in FrameBatches : CategorizeTransactions(df_clean)
    \/ \E df_clean \in FrameBatches : CategorizeEfficiently(df_clean)
    \/ \E r \in FrameRows : CategorizeRow(r)
    \/ GetCategorySummary
    \/ \E category_name \in AddedCategories : AddCategory(category_name)

SpecFrame == InitStore /\ [][NextFrame]_vars

---------------------------------------------------------------------------
(* The dashboard (m_top.py): the statement it processed, the two filter    *)
(* toggles, filter_categorized_data and the Analyzer's category methods,    *)
(* whose tuples the script unpacks six ways.                                *)

\* Timestamp.strftime("%B_%Y") for a Timestamp n of January or February 2024
StrftimeMonth(n) == IF DayOf(n) <= 31 THEN "January_2024" ELSE "February_2024"

\* the row mask of the date range: pd.to_datetime(date) is midnight at the
\* start of that day, and NaT compares False on both sides
InDateRange(d, date_filter) ==
    /\ d.date_time.t = "time"
    /\ d.date_time.n >= 24 * date_filter[1]
    /\ d.date_time.n <= 24 * date_filter[2]

\* the row mask of the month filter: NaT formats to NaN, which is in no list
InMonths(d, month_filter) ==
    d.date_time.t = "time" /\ StrftimeMonth(d.date_time.n) \in month_filter

\* faulty variant: the month filter is applied whenever one is given
FilterBucketMonthFirst(df, date_filter, month_filter) ==
    IF df = <<>> THEN df
    ELSE IF month_filter # {}
         THEN SelectSeq(df, LAMBDA d : InMonths(d, month_filter))
    ELSE IF date_filter # <<>> /\ Len(date_filter) = 2
         THEN SelectSeq(df, LAMBDA d : InDateRange(d, date_filter))
    ELSE df

\* the body of the loop over categorized_data.items() for one table df
FilterBucket(df, date_filter, month_filter) ==
    IF df = <<>> THEN df
    ELSE IF date_filter # <<>> /\ Len(date_filter) = 2
         THEN SelectSeq(df, LAMBDA d : InDateRange(d, date_filter))
    ELSE IF month_filter # {}
         THEN SelectSeq(df, LAMBDA d : InMonths(d, month_filter))
    ELSE df

\* filter_categorized_data(categorized_data, date_filter, month_filter);
\* date_filter is a tuple of dates, <<>> standing for None and for (), and
\* month_filter a list of month names, {} standing for None and for []
filter_categorized_data(categorized_data, date_filter, month_filter) ==
    IF date_filter = <<>> /\ month_filter = {} THEN categorized_data
    ELSE [category \in DOMAIN categorized_data |->
             FilterBucket(categorized_data[category], date_filter, month_filter)]

\* an element of the tuples the Analyzer returns: the chart ("figure") or
\* None, a "number" k, the grouped "frame" (kept by its number k of rows) or a
\* "table" of rows df
Element(kind, k, df) == [kind |-> kind, n |-> k, rows |-> df]

\* "return None, 0, 0, 0, pd.DataFrame()"
EmptyResult5 ==
    <<Element("None", 0, <<>>), Element("number", 0, <<>>), Element("number", 0, <<>>),
      Element("number", 0, <<>>), Element("frame", 0, <<>>)>>

\* "return None, 0, 0, 0, pd.DataFrame(), pd.DataFrame()"
EmptyResult6 == Append(EmptyResult5, Element("table", 0, <<>>))

\* self.data.get(name, pd.DataFrame())
Bucket(self, name) == IF name \in DOMAIN self THEN self[name] ELSE <<>>

\* df[~df["is_charge"]]
NotCharges(df) == SelectSeq(df, LAMBDA d : d.is_charge = PyBool(FALSE))

\* df.nunique()["receipt_no"]
Receipts(df) == Cardinality({df[k].receipt_no : k \in 1..Len(df)})

\* the number of rows of df.groupby("processed_entity").agg(...)
Entities(df) == Cardinality({df[k].processed_entity : k \in 1..Len(df)})

\* the tuple of a method that reports what came in: no charges
MoneyIn(df, charges) ==
    IF df = <<>> THEN EmptyResult6
    ELSE <<Element("figure", 0, <<>>),
           Element("number", SumColumn(df, "paid_in"), <<>>),
           charges,
           Element("number", Receipts(df), <<>>),
           Element("frame", Entities(df), <<>>),
           Element("table", Len(df), df)>>

\* the tuple of a method that reports what went out, count being its count
MoneyOut(df, count) ==
    IF df = <<>> THEN EmptyResult6
    ELSE <<Element("figure", 0, <<>>),
           Element("number", SumColumn(df, "withdrawn"), <<>>),
           Element("number", 0, <<>>),
           Element("number", count, <<>>),
           Element("frame", Entities(df), <<>>),
           Element("table", Len(df), df)>>

\* the tuple of a method that separates the charges, df[df["is_charge"]]:
\* empty is what it returns for an empty table and for a table of charges only
WithCharges(df, empty, count) ==
    IF df = <<>> THEN empty
    ELSE IF NotCharges(df) = <<>> THEN empty
    ELSE <<Element("figure", 0, <<>>),
           Element("number", SumColumn(NotCharges(df), "withdrawn"), <<>>),
           Element("number",
                   SumColumn(SelectSeq(df, LAMBDA d : d.is_charge = PyBool(TRUE)),
                             "withdrawn"), <<>>),
           Element("number", count, <<>>),
           Element("frame", Entities(NotCharges(df)), <<>>),
           Element("table", Len(NotCharges(df)), NotCharges(df))>>

\* the Analyzer's methods, self being self.data
ReceivedMoney(self) == MoneyIn(Bucket(self, "ReceivedMoney"), Element("None", 0, <<>>))
ReceivedMoney_business(self) ==
    MoneyIn(Bucket(self, "ReceivedMoney_business"), Element("number", 0, <<>>))
Deposit(self) == MoneyIn(Bucket(self, "Deposit"), Element("number", 0, <<>>))
Pochi_in(self) == MoneyIn(Bucket(self, "Pochi_in"), Element("number", 0, <<>>))
SendMoney(self) ==
    WithCharges(Bucket(self, "SendMoney"), EmptyResult5,
                Receipts(NotCharges(Bucket(self, "SendMoney"))))
businessPayment_toCustomer(self) ==
    IF Bucket(self, "businessPayment_toCustomer") = <<>> THEN EmptyResult6
    ELSE WithCharges(Bucket(self, "businessPayment_toCustomer"), EmptyResult5,
                     Receipts(NotCharges(Bucket(self, "businessPayment_toCustomer"))))
BuyGoodsPayments(self) ==
    WithCharges(Bucket(self, "BuyGoodsPayments"), EmptyResult5,
                Receipts(NotCharges(Bucket(self, "BuyGoodsPayments"))))
PayBillPayments(self) ==
    WithCharges(Bucket(self, "PayBillPayments"), EmptyResult6,
                Receipts(NotCharges(Bucket(self, "PayBillPayments"))))
Pochi(self) == MoneyOut(Bucket(self, "Pochi"), Receipts(Bucket(self, "Pochi")))
CashWithdrawals(self) ==
    WithCharges(Bucket(self, "CashWithdrawals"), EmptyResult6,
                Len(NotCharges(Bucket(self, "CashWithdrawals"))))
airtime_bundle(self) ==
    MoneyOut(Bucket(self, "airtime_bundle"), Len(Bucket(self, "airtime_bundle")))

\* the methods the script unpacks, in the order it calls them
Unpacked ==
    <<"BuyGoodsPayments", "PayBillPayments", "SendMoney", "ReceivedMoney", "Deposit",
      "CashWithdrawals", "ReceivedMoney_business", "Pochi", "Pochi_in", "airtime_bundle">>

\* analysisBot.<method>()
Call(method, self) ==
    CASE method = "BuyGoodsPayments" -> BuyGoodsPayments(self)
      [] method = "PayBillPayments" -> PayBillPayments(self)
      [] method = "SendMoney" -> SendMoney(self)
      [] method = "ReceivedMoney" -> ReceivedMoney(self)
      [] method = "Deposit" -> Deposit(self)
      [] method = "CashWithdrawals" -> CashWithdrawals(self)
      [] method = "ReceivedMoney_business" -> ReceivedMoney_business(self)
      [] method = "Pochi" -> Pochi(self)
      [] method = "Pochi_in" -> Pochi_in(self)
      [] method = "airtime_bundle" -> airtime_bundle(self)
      [] OTHER -> businessPayment_toCustomer(self)

\* the script's assignments "(a, b, c, d, e, f) = analysisBot.<method>()", in
\* order, six names on the left of each: the first tuple that has not six
\* elements raises ValueError
Analyse(self) ==
    LET short == {i \in 1..Len(Unpacked) : Len(Call(Unpacked[i], self)) # 6}
    IN IF short = {} THEN [kind |-> "unpacked", at |-> "", data |-> self]
       ELSE [kind |-> "raised", at |-> Unpacked[Least(short)], data |-> self]

\* faulty variant: each toggle disables itself
update_toggles_self(s) ==
    [s EXCEPT !.disable = [date |-> s.date_filter, month |-> s.month_filter]]

\* update_toggles, the on_change callback of both toggles
update_toggles(s) ==
    [s EXCEPT !.disable = [date |-> s.month_filter, month |-> s.date_filter]]

\* month_list: the statement's months ("January_2024"); the default selection
\* is its first three, which is all of them in a statement of two months
MonthList(df) == {StrftimeMonth(n) : n \in Times(df)}

\* the widgets the script shows under the toggles s, with their defaults:
\* st.date_input starts at the statement's first and last day
Widgets(s, df) ==
    [date_range |-> IF s.date_filter
                    THEN <<DayOf(Least(Times(df))), DayOf(Greatest(Times(df)))>>
                    ELSE <<>>,
     months |-> IF ~s.date_filter /\ s.month_filter THEN MonthList(df) ELSE {}]

\* the record of one filter_categorized_data call
FilterCall(categorized_data, date_filter, month_filter) ==
    [called |-> TRUE, date_filter |-> date_filter, month_filter |-> month_filter,
     input |-> categorized_data,
     map |-> filter_categorized_data(categorized_data, date_filter, month_filter)]

\* the filter call of a script run under the toggles s and the widget values
\* sel, with date_filter_value and month_filter_value as the script sets them
ScriptFilter(s, sel, ld) ==
    FilterCall(ld.map,
               IF s.date_filter /\ Len(sel.date_range) = 2 THEN sel.date_range ELSE <<>>,
               IF ~s.date_filter /\ s.month_filter THEN sel.months ELSE {})

\* rows of a statement, all dated: a buy-goods payment on 5 January, its
\* charge on 6 January, a transfer and its charge on 20 January, a deposit on 9 February and a
\* pay-bill charge on 10 February at midnight
DashRows ==
    <<MakeRow("B1", PyStr("Merchant Payment to 77 - Shop"), PyStr("Merchant Payment to 77"),
              PyStr(""), PyStr("Shop"), 0, 300),
      [MakeRow("B2", PyStr("Pay Merchant Charge"), PyStr("Pay Merchant Charge"),
               PyStr(""), PyStr("Pay Merchant Charge"), 0, 3)
          EXCEPT !.date_time = PyTime(6)],
      [MakeRow("S1", PyStr("Customer Transfer to - 07***12 jo"), PyStr("Customer Transfer to"),
               PyStr(""), PyStr("07***12 jo"), 0, 100)
          EXCEPT !.date_time = PyTime(20), !.week = PyStr("03_24")],
      [MakeRow("S2", PyStr("Customer Transfer of Funds Charge"),
               PyStr("Customer Transfer of Funds"), PyStr("Charge"),
               PyStr("Customer Transfer of Funds Charge"), 0, 7)
          EXCEPT !.date_time = PyTime(20), !.week = PyStr("03_24")],
      [MakeRow("D1", PyStr("Deposit of Funds"), PyStr("Deposit of Funds"), PyStr(""),
               PyStr("Deposit of Funds"), 500, 0)
          EXCEPT !.date_time = PyTime(40), !.month = PyStr("February_24"),
                 !.week = PyStr("06_24")],
      [MakeRow("P1", PyStr("Pay Bill Charge"), PyStr("Pay Bill Charge"), PyStr(""),
               PyStr("Pay Bill Charge"), 0, 5)
          EXCEPT !.date_time = PyTimeAt(41, 0), !.month = PyStr("February_24"),
                 !.week = PyStr("06_24")]>>

\* the rows of DashRows numbered in S, in statement order
RowsOf(S) == SelectSeq(DashRows, LAMBDA r : \E i \in S : DashRows[i] = r)

\* the statements the dashboard is given: every kind of row; no transfer; a
\* buy-goods charge without its payment; payments and a pay-bill charge; a
\* transfer charge and a deposit; and one on which categorization raises (a
\* transfer to a masked number without a name)
Statements ==
    {RowsOf({1, 2, 3, 4, 5, 6}), RowsOf({1, 5}), RowsOf({2, 3, 5}), RowsOf({1, 3, 6}),
     RowsOf({4, 5}), <<DashRows[1], StoreRows[4]>>}

\* categorize_data(df_cleaned) and the statement's date range read before it:
\* an exception of categorize_transactions_efficiently is reported as an
\* error, and so the script stops
Load(df_cleaned) ==
    IF categorize_transactions(InitCategories, df_cleaned).raised
    THEN [kind |-> "error", df |-> df_cleaned, map |-> InitCategories]
    ELSE [kind |-> "mapping", df |-> df_cleaned,
          map |-> categorize_transactions(InitCategories, df_cleaned).categorized_dfs]

\* one run of the script from the filters on, under toggles s, widget values
\* sel and the processed statement ld: st.stop() ends it before the filters
\* when there is no categorized data
RunScript(s, sel, ld) ==
    /\ session' = s
    /\ selection' = sel
    /\ loaded' = ld
    /\ filtered' = IF ld.kind = "mapping" THEN ScriptFilter(s, sel, ld) ELSE filtered
    /\ analysis' = IF ld.kind = "mapping" THEN Analyse(ScriptFilter(s, sel, ld).map)
                   ELSE analysis
    /\ UNCHANGED <<storeVars, textVars>>

\* the user uploads a statement and clicks Process
Process(df_cleaned) ==
    RunScript(session, Widgets(session, df_cleaned), Load(df_cleaned))

\* the user switches the date toggle, which is not disabled; update_toggles
\* runs and the script after it
ToggleDate ==
    /\ loaded.kind = "mapping"
    /\ ~session.disable.date
    /\ LET s == update_toggles([session EXCEPT !.date_filter = ~session.date_filter])
       IN RunScript(s, Widgets(s, loaded.df), loaded)

\* the user switches the month toggle, which is not disabled
ToggleMonth ==
    /\ loaded.kind = "mapping"
    /\ ~session.disable.month
    /\ LET s == update_toggles([session EXCEPT !.month_filter = ~session.month_filter])
       IN RunScript(s, Widgets(s, loaded.df), loaded)

\* the days a user picks in st.date_input: the days of the statement's rows
\* and the day after each, between min_value and max_value
PickableDays(df) ==
    {day \in {DayOf(n) : n \in Times(df)} \cup {DayOf(n) + 1 : n \in Times(df)} :
        day <= DayOf(Greatest(Times(df)))}

\* the user picks the first day of a range, or both
SelectDateRange(date_range) ==
    /\ loaded.kind = "mapping"
    /\ session.date_filter
    /\ RunScript(session, [selection EXCEPT !.date_range = date_range], loaded)

\* the user picks months in st.segmented_control
SelectMonths(months) ==
    /\ loaded.kind = "mapping"
    /\ ~session.date_filter /\ session.month_filter
    /\ RunScript(session, [selection EXCEPT !.months = months], loaded)

NextDashboard ==
    \/ \E df_cleaned \in Statements : Process(df_cleaned)
    \/ ToggleDate
    \/ ToggleMonth
    \/ \E a, b \in PickableDays(loaded.df) :
          a <= b /\ (SelectDateRange(<<a>>) \/ SelectDateRange(<<a, b>>))
    \/ \E months \in SUBSET MonthList(loaded.df) : SelectMonths(months)

SpecDashboard == InitStore /\ [][NextDashboard]_vars

\* the tables filter_categorized_data is called on by itself: those of the
\* statements, one with a row whose date did not parse, and one without the
\* empty categories
FilterInputs ==
    {Load(df).map : df \in {st \in Statements : Load(st).kind = "mapping"}}
    \cup {Load(<<DashRows[1], DashRows[5], StoreRows[5]>>).map,
          [c \in {"Deposit", "SendMoney"} |-> Load(RowsOf({3, 4, 5})).map[c]]}

\* filter_categorized_data(categorized_data, date_filter, month_filter)
FilterCategorizedData(categorized_data, date_filter, month_filter) ==
    /\ filtered' = FilterCall(categorized_data, date_filter, month_filter)
    /\ UNCHANGED <<storeVars, textVars, session, selection, loaded, analysis>>

\* the date arguments are no range, half a range, ranges that end on a row's
\* day, before the first row and after the last one
NextFilter ==
    \E categorized_data \in FilterInputs,
       date_filter \in {<<>>, <<5>>, <<5, 20>>, <<6, 41>>, <<1, 4>>, <<21, 60>>},
       month_filter \in SUBSET {"January_2024", "February_2024"} :
        FilterCategorizedData(categorized_data, date_filter, month_filter)

SpecFilter == InitStore /\ [][NextFilter]_vars

---------------------------------------------------------------------------
(* The text functions called on their own: the three entity normalizers of *)
(* TransactionCategorizer and the two splitters of load_wrangle.py          *)

\* the record of a call that returned the pair (first, second)
Gave(fn, arg, first, second) ==
    [fn |-> fn, arg |-> arg, raised |-> FALSE, first |-> first, second |-> second]

\* the record of a normalizer call on a str entity, n being its outcome
FromNormalizer(fn, arg, n) ==
    [fn |-> fn, arg |-> arg, raised |-> n.raised,
     first |-> PyStr(n.name), second |-> PyStr(n.account)]

\* the call before, when the argument of this one is the first element it
\* returned
Fed(arg) == IF call.fn # "none" /\ ~call.raised /\ arg = call.first THEN call ELSE NoCall

\* the guard shared by the normalizers: "if pd.isna(entity) or entity == ''"
PassedThrough(entity) == IsNa(entity) \/ entity = PyStr("")

\* counterparty cells: missing, empty, clean names in several casings, masked
\* numbers with and without a name, paybill and via/is forms, and names with
\* blanks around them as details without a separator leave them
EntityTexts ==
    {PyNaN, PyNone, PyStr(""), PyStr("john doe"), PyStr("JOHN o'neil"),
     PyStr("2547***123 jane roe"), PyStr("07***123"),
     PyStr("Kenya Power Acc. 123456"), PyStr("shop  Acc.  7 b "),
     PyStr("kplc via api is 44"), PyStr("Kplc VIA x IS  9 "), PyStr(" John Doe")}

\* details cells: missing, without separator, with one and with several
DetailsTexts ==
    {PyNaN, PyNone, PyStr(""), PyStr("Deposit of Funds"),
     PyStr("Send Money - 07***12 jo"), PyStr("Pay Bill to 12 - KPLC - Acc. 5"),
     PyStr("Customer Transfer of Funds Charge - 07***1"),
     PyStr("Buy at 7 -  Shop - East - 2"), PyStr("Airtime-Purchase"),
     PyStr("Withdrawal - "), PyStr("- x"), PyStr("M -Pesa - Loan")}

\* type phrases: missing, of fewer than, exactly and more than four pieces,
\* and with doubled or trailing blanks
TypeTexts ==
    {PyNaN, PyNone, PyStr(""), PyStr("Send Money"), PyStr("Funds Received From Business"),
     PyStr("Customer Transfer of Funds Charge"), PyStr("Pay Bill Online to 12 Kenya Power"),
     PyStr("a  b c d e"), PyStr("a b c d "), PyStr(" a b c d")}

\* categorizer.process_masked_phone(entity)
ProcessMaskedPhone(entity) ==
    /\ call' = IF PassedThrough(entity)
               THEN Gave("process_masked_phone", entity, entity, PyStr(""))
               ELSE FromNormalizer("process_masked_phone", entity,
                                   process_masked_phone(entity.v))
    /\ prevcall' = Fed(entity)
    /\ UNCHANGED <<storeVars, dashVars>>

\* categorizer.process_business_and_account(entity)
ProcessBusinessAndAccount(entity) ==
    /\ call' = IF PassedThrough(entity)
               THEN Gave("process_business_and_account", entity, entity, PyStr(""))
               ELSE FromNormalizer("process_business_and_account", entity,
                                   process_business_and_account(entity.v))
    /\ prevcall' = Fed(entity)
    /\ UNCHANGED <<storeVars, dashVars>>

\* categorizer.extract_paybill_details(entity)
ExtractPaybillDetails(entity) ==
    /\ call' = IF PassedThrough(entity)
               THEN Gave("extract_paybill_details", entity, entity, PyStr(""))
               ELSE FromNormalizer("extract_paybill_details", entity,
                                   extract_paybill_details(entity.v))
    /\ prevcall' = Fed(entity)
    /\ UNCHANGED <<storeVars, dashVars>>

\* split_details(details_text)
SplitDetails(details_text) ==
    /\ call' = Gave("split_details", details_text,
                    split_details(details_text)[1], split_details(details_text)[2])
    /\ prevcall' = Fed(details_text)
    /\ UNCHANGED <<storeVars, dashVars>>

\* split_type(transaction_type)
SplitType(transaction_type) ==
    /\ call' = Gave("split_type", transaction_type,
                    PyStr(split_type(transaction_type)[1]),
                    PyStr(split_type(transaction_type)[2]))
    /\ prevcall' = Fed(transaction_type)
    /\ UNCHANGED <<storeVars, dashVars>>

\* a function is called on a text of its pool or on the first element the
\* call before it returned
NextText ==
    \/ \E entity \in EntityTexts \cup {call.first} : ProcessMaskedPhone(entity)
    \/ \E entity \in EntityTexts \cup {call.first} : ProcessBusinessAndAccount(entity)
    \/ \E entity \in EntityTexts \cup {call.first} : ExtractPaybillDetails(entity)
    \/ \E details_text \in DetailsTexts : SplitDetails(details_text)
    \/ \E transaction_type \in TypeTexts \cup {call.first} : SplitType(transaction_type)

SpecText == InitStore /\ [][NextText]_vars

---------------------------------------------------------------------------
(* Properties of categorize_transaction, checked under Spec *)

\* the lowercased fields the rules read off the current row
X == Lowered(row.details)
Y == Lowered(row.type_desc)
Z == Lowered(row.type_class)

NumRules == Len(DefaultCategories)

\* rule k of the rule table matches the current row
Matches(k) == Guard(k, X, Y, Z)

\* rule i is the first rule of the table that matches the current row
FirstMatch(i) == Matches(i) /\ \A k \in 1..(i - 1) : ~Matches(k)

\* the category the rule table gives rule k
RuleCategory(k) == PyStr(DefaultCategories[k])

CategoryIs(name) == out.data.category = PyStr(name)

\* C1: first match wins.  When the row satisfies rules i < j and i is the
\* first rule it satisfies, the category assigned is rule i's and not rule
\* j's; a row whose details contains both "pay bill" and "withdrawal" is never
\* classified CashWithdrawals, and is PayBillPayments when no rule before the
\* pay-bill rule matches.
C1_FirstMatchWins ==
    out.called =>
        /\ \A i \in 1..NumRules :
              FirstMatch(i) =>
                  /\ out.data.category = RuleCategory(i)
                  /\ \A j \in (i + 1)..NumRules :
                        Matches(j) => out.data.category # RuleCategory(j)
        /\ (Contains("pay bill", X) /\ Contains("withdrawal", X)) =>
              /\ ~CategoryIs("CashWithdrawals")
              /\ FirstMatch(14) => CategoryIs("PayBillPayments")

\* a classified row that satisfies both the pay-bill and the withdrawal rule
C1_Witness ==
    /\ out.called
    /\ FirstMatch(14)
    /\ Matches(16)
    /\ CategoryIs("PayBillPayments")

\* C2: totality.  Every record categorize_transaction returns has a category
\* that is one of the 19 fixed labels, never None.
C2_Totality ==
    (out.called /\ ~out.raised) =>
        /\ out.data.category.t = "str"
        /\ out.data.category.v \in CategoryNames
        /\ Cardinality(CategoryNames) = 19

\* a returned record of a row that skipped every rule but the last
C2_Witness == out.called /\ ~out.raised /\ FirstMatch(19) /\ CategoryIs("uncategorized")

\* C3: categorize_transaction never raises, whatever the field contents.
C3_NeverRaises == out.called => ~out.raised

\* the current row's details is the literal missing marker "nan"
DetailsIsNan == Str(row.details) = "nan"

\* a rule before the NoDetails rule that reads only type_class and type_desc
\* matches the current row
TypeRuleMatches == (\E k \in {1, 2, 4, 9, 11} : Matches(k)) \/ Contains("bundles", Y)

\* C7 as stated: details "nan" gives NoDetails whatever the other fields hold.
C7_NanAlwaysNoDetails == (out.called /\ DetailsIsNan) => CategoryIs("NoDetails")

\* C7 amended: a row whose details is the literal "nan" is classified
\* NoDetails, whatever its entity, exactly when none of the rules 1, 2, 4, 9, 11
\* and the "bundles" test of rule 17 (which read only type_class and type_desc)
\* matches; when one does, the row gets that earlier rule's category.
C7_NanFallback ==
    (out.called /\ DetailsIsNan) =>
        /\ ~TypeRuleMatches => (CategoryIs("NoDetails") /\ ~out.raised)
        /\ TypeRuleMatches =>
              /\ ~CategoryIs("NoDetails")
              /\ \A i \in 1..17 : FirstMatch(i) => out.data.category = RuleCategory(i)

\* a "nan" row with a non-empty entity classified NoDetails
C7_Witness ==
    /\ out.called
    /\ DetailsIsNan
    /\ ~TypeRuleMatches
    /\ Str(row.entity) = "07***123"
    /\ CategoryIs("NoDetails")

\* C8: a row whose details is None is classified NoDetails.
C8_NoneIsNoDetails == (out.called /\ row.details = PyNone) => CategoryIs("NoDetails")

\* C9: a row whose details is the literal "nan" is never classified
\* uncategorized.
C9_NanNeverUncategorized == (out.called /\ DetailsIsNan) => ~CategoryIs("uncategorized")

\* a "nan" row that reached the NoDetails rule
C9_Witness == out.called /\ DetailsIsNan /\ FirstMatch(18) /\ CategoryIs("NoDetails")

\* the entity text the rules hand to the normalizers
E == Str(row.entity)

\* a record was returned for the current row
Returned1 == out.called /\ ~out.raised

\* s names one of the three payment types of rule 2
PaymentFrom(s) ==
    \/ Contains("salary payment from", s)
    \/ Contains("promotion payment from", s)
    \/ Contains("business payment from", s)

\* C14 as stated: a row not matched by rule 1 whose type_desc contains
\* "salary payment from", "promotion payment from" or "business payment from" is
\* classified ReceivedMoney_business.
C14_Rule2OnTypeDesc ==
    (out.called /\ ~Matches(1) /\ PaymentFrom(Y)) => CategoryIs("ReceivedMoney_business")

\* C14 amended: a row not matched by rule 1 whose type_class contains one of
\* the three phrases is classified ReceivedMoney_business, with is_charge
\* false on the returned record; the phrases in type_desc decide nothing: such
\* a row is ReceivedMoney_business only when type_class satisfies rule 2.
C14_Rule2OnTypeClass ==
    out.called =>
        /\ (~Matches(1) /\ PaymentFrom(Z)) =>
              /\ CategoryIs("ReceivedMoney_business")
              /\ ~out.raised => out.data.is_charge = PyBool(FALSE)
        /\ (PaymentFrom(Y) /\ CategoryIs("ReceivedMoney_business")) =>
              \/ Z = "merchant customer payment from"
              \/ PaymentFrom(Z)
              \/ Contains("funds received from business", Z)

\* a salary payment named in type_class only, with details an earlier rule of
\* the details column would take, returned as ReceivedMoney_business
C14_Witness ==
    /\ Returned1
    /\ ~Matches(1)
    /\ PaymentFrom(Z)
    /\ ~PaymentFrom(Y)
    /\ Matches(3)
    /\ CategoryIs("ReceivedMoney_business")

\* C15: rule 19.  A row matching none of rules 1-18 is uncategorized, and its
\* processed_entity is the name the masked-phone strategy gives when the
\* entity's first two characters are numeric, the literal "non" otherwise.
C15_Rule19Entity ==
    (Returned1 /\ FirstMatch(19)) =>
        /\ CategoryIs("uncategorized")
        /\ out.data.processed_entity =
              IF IsNumeric(Slice0(E, 2)) THEN PyStr(process_masked_phone(E).name)
              ELSE PyStr("non")

\* the categories whose records may be flagged as a charge
ChargeCategories ==
    {"SendMoney", "BuyGoodsPayments", "PayBillPayments", "CashWithdrawals",
     "businessPayment_toCustomer"}

\* C16 as stated: is_charge is true only for records of category SendMoney,
\* BuyGoodsPayments, PayBillPayments, CashWithdrawals or
\* businessPayment_toCustomer; on a record of any other category it is not
\* true.
C16_ChargeOnlyListed ==
    Returned1 =>
        (out.data.is_charge = PyBool(TRUE) => out.data.category.v \in ChargeCategories)

\* C16 amended: is_charge is true only for records of category SendMoney,
\* BuyGoodsPayments, PayBillPayments, CashWithdrawals or HustlerFund (where it
\* is "charge" in type_class); businessPayment_toCustomer records always have
\* it false; it is a boolean on every record but those of NoDetails, where it
\* is the empty string.
C16_ChargeCategories ==
    Returned1 =>
        /\ out.data.is_charge = PyBool(TRUE) =>
              out.data.category.v \in
                  {"SendMoney", "BuyGoodsPayments", "PayBillPayments", "CashWithdrawals",
                   "HustlerFund"}
        /\ CategoryIs("HustlerFund") => out.data.is_charge = PyBool(Contains("charge", Z))
        /\ CategoryIs("businessPayment_toCustomer") => out.data.is_charge = PyBool(FALSE)
        /\ CategoryIs("NoDetails") => out.data.is_charge = PyStr("")
        /\ ~CategoryIs("NoDetails") => out.data.is_charge.t = "bool"

\* a HustlerFund record flagged as a charge
C16_Witness ==
    /\ Returned1
    /\ CategoryIs("HustlerFund")
    /\ out.data.is_charge = PyBool(TRUE)

\* the outcome of the call agrees with normalizer outcome n: both raise, or
\* the record carries n's name and account
Carries(n) ==
    /\ out.raised = n.raised
    /\ ~n.raised =>
          /\ out.data.processed_entity = PyStr(n.name)
          /\ out.data.account_no = PyStr(n.account)

\* C17: normalizer selection.  In rules 1, 2, 4, 9 and 11 the masked-phone
\* strategy is applied exactly when the entity's first character is numeric
\* and the business/via-suffix strategy otherwise; rule 14 applies the paybill
\* strategy whatever the entity starts with.
C17_NormalizerSelection ==
    out.called =>
        /\ \A k \in {1, 2, 4, 9, 11} :
              FirstMatch(k) =>
                  IF E # "" /\ Ch(E, 1) \in DigitSet
                  THEN Carries(process_masked_phone(E))
                  ELSE Carries(process_business_and_account(E))
        /\ FirstMatch(14) => Carries(extract_paybill_details(E))

\* a rule-1 record of an entity starting with a letter, on which the two
\* strategies differ, carrying the business strategy's name and account
C17_WitnessBusiness ==
    /\ Returned1
    /\ FirstMatch(1)
    /\ E = "kplc via api is 4455"
    /\ out.data.processed_entity = PyStr("kplc")
    /\ out.data.account_no = PyStr("4455")
    /\ process_masked_phone(E).name # "kplc"

\* C18: rule 10.  A row reaching rule 10 whose details contains "customer
\* transfer", "send money" or "transfer to other small business to" is
\* classified SendMoney; on the returned record is_charge is true exactly when
\* type_desc contains "charge", subcategory is "charge" or "transfer"
\* accordingly, and processed_entity is the masked-phone name.
C18_Rule10SendMoney ==
    (out.called /\ (\A k \in 1..9 : ~Matches(k))
                /\ (\/ Contains("customer transfer", X)
                    \/ Contains("send money", X)
                    \/ Contains("transfer to other small business to", X))) =>
        /\ CategoryIs("SendMoney")
        /\ ~out.raised =>
              /\ out.data.is_charge = PyBool(Contains("charge", Y))
              /\ out.data.subcategory =
                    PyStr(IF Contains("charge", Y) THEN "charge" ELSE "transfer")
              /\ out.data.processed_entity = PyStr(process_masked_phone(E).name)

\* the documented example: a charge line of a transfer to "254***123 Jane Roe"
C18_Witness ==
    /\ Returned1
    /\ FirstMatch(10)
    /\ E = "254***123 Jane Roe"
    /\ CategoryIs("SendMoney")
    /\ out.data.is_charge = PyBool(TRUE)
    /\ out.data.subcategory = PyStr("charge")
    /\ out.data.processed_entity = PyStr("Jane Roe")

\* the current row reaches rule 16: none of the rules 1 to 15 matches it
ReachesRule16 == \A k \in 1..15 : ~Matches(k)

\* C19: rule 16.  A row reaching rule 16 is classified CashWithdrawals exactly
\* when details contains "withdrawal" and type_desc does not start with "from";
\* then is_charge is true exactly when details contains "charge".  A
\* withdrawal row whose type_desc starts with "from" falls through to the
\* rules 17 to 19.
C19_Rule16Withdrawal ==
    (out.called /\ ReachesRule16) =>
        /\ CategoryIs("CashWithdrawals") <=>
              (Contains("withdrawal", X) /\ ~StartsAt(Y, 1, "from"))
        /\ CategoryIs("CashWithdrawals") =>
              /\ ~out.raised
              /\ out.data.is_charge = PyBool(Contains("charge", X))
        /\ (Contains("withdrawal", X) /\ StartsAt(Y, 1, "from")) =>
              \E k \in 17..19 : FirstMatch(k) /\ out.data.category = RuleCategory(k)

\* a withdrawal charge line returned as CashWithdrawals with is_charge true
C19_Witness ==
    /\ Returned1
    /\ ReachesRule16
    /\ Contains("withdrawal", X)
    /\ Contains("charge", X)
    /\ CategoryIs("CashWithdrawals")
    /\ out.data.is_charge = PyBool(TRUE)

\* the categories with a counterparty account
AccountCategories ==
    {"ReceivedMoney", "ReceivedMoney_business", "Pochi_in",
     "businessPayment_fromOtherSME", "businessPayment_toCustomer", "PayBillPayments"}

\* C20: account_no is present on a returned record only when its category is
\* ReceivedMoney, ReceivedMoney_business, Pochi_in, businessPayment_fromOtherSME,
\* businessPayment_toCustomer or PayBillPayments; records of every other
\* category carry no account_no.
C20_AccountOnlyListed ==
    Returned1 =>
        /\ out.data.account_no # Absent => out.data.category.v \in AccountCategories
        /\ out.data.category.v \notin AccountCategories => out.data.account_no = Absent

\* a paybill record carrying the account number taken from its entity
C20_Witness ==
    /\ Returned1
    /\ CategoryIs("PayBillPayments")
    /\ E = "Kenya Power Acc. 123456"
    /\ out.data.account_no = PyStr("123456")

---------------------------------------------------------------------------
(* Properties of the category store, checked under SpecStore *)

\* what categorize_transaction gives for row i of the last run's input
Classified(i) == categorize_transaction(InitCategories, input[i]).data

\* the rows of the last run's input that belong in bucket c
InBucket(c) == {i \in 1..Len(input) : Classified(i).category = PyStr(c)}

RECURSIVE SumSizes(_, _)
\* sum(len(bucket) for bucket in buckets.values()) over the keys in S
SumSizes(buckets, S) ==
    IF S = {} THEN 0
    ELSE LET c == CHOOSE k \in S : TRUE
         IN Len(buckets[c]) + SumSizes(buckets, S \ {c})

\* a run has returned its mapping
RunReturned == ret.kind = "mapping"

\* C4: partition completeness.  The bucket sizes of the mapping a run returns
\* sum to len(X), and every input row is in exactly one bucket, the one named
\* by its category.
C4_PartitionComplete ==
    RunReturned =>
        /\ SumSizes(ret.map, DOMAIN ret.map) = Len(input)
        /\ \A c \in DOMAIN ret.map :
              /\ Len(ret.map[c]) = Cardinality(InBucket(c))
              /\ \A i \in InBucket(c) : \E k \in 1..Len(ret.map[c]) :
                    ret.map[c][k] = Classified(i)

\* C5: a run's buckets are built only from that run's input: every row of
\* every returned bucket is the classification of a row of this run's input.
C5_RebuiltPerRun ==
    RunReturned =>
        \A c \in DOMAIN ret.map : \A k \in 1..Len(ret.map[c]) :
            \E i \in 1..Len(input) : ret.map[c][k] = Classified(i)

\* C6: atomic failure.  After a run that raised, the categorizer's buckets
\* hold what they held when the run was entered.
C6_AtomicFailure == ret.kind = "raised" => categories = before

\* the categorizer's buckets when the last run was entered: those of the
\* long-lived categorizer, or the empty ones of the categorizer the convenience
\* function builds
RunEntry == IF ret.via = "function" THEN InitCategories ELSE before

ClassifiedInput == [i \in 1..Len(input) |-> Classified(i)]

\* C12: within every bucket of the returned mapping, the rows of the input
\* appear in input order: the bucket is what it held when the run was entered
\* followed by the classifications of the input's rows of that category, in
\* the order of the input.
C12_StableOrder ==
    RunReturned =>
        LET records == ClassifiedInput
        IN \A c \in DOMAIN ret.map :
              ret.map[c] =
                  RunEntry[c] \o SelectSeq(records, LAMBDA d : d.category = PyStr(c))

\* a run put two different rows in one bucket, in the order of its input,
\* which is not the order of their receipt numbers
C12_Witness ==
    /\ RunReturned
    /\ \E c \in DOMAIN ret.map :
          /\ Len(ret.map[c]) = 2
          /\ Len(input) = 2
          /\ ret.map[c][1] = Classified(1)
          /\ ret.map[c][2] = Classified(2)
          /\ Classified(1) # Classified(2)
          /\ input[1] = StoreRows[2]
          /\ input[2] = StoreRows[1]

\* get_category_summary has been called on the mapping of the last run
Summarized == summary.kind # "none"

\* the categories of the last run's mapping that hold at least one transaction
NonEmptyBuckets == {c \in DOMAIN ret.map : Len(ret.map[c]) > 0}

\* C13: get_category_summary produces exactly one summary row per non-empty
\* bucket and none for an empty bucket: the categories of the summary are the
\* categories with at least one transaction.
C13_SummaryOmitsEmpty ==
    Summarized =>
        /\ summary.kind = "table"
        /\ {summary.rows[k].category : k \in 1..Len(summary.rows)} = NonEmptyBuckets
        /\ Len(summary.rows) = Cardinality(NonEmptyBuckets)

\* record d, an earlier classification kept in a bucket, was made from the same
\* (details, type_desc, type_class, entity) as the current row
SameInputs(d) ==
    /\ d.details = row.details
    /\ d.type_desc = row.type_desc
    /\ d.type_class = row.type_class
    /\ d.entity = PyStr(Str(row.entity))

SameOutputs(d) ==
    /\ d.category = out.data.category
    /\ d.subcategory = out.data.subcategory
    /\ d.is_charge = out.data.is_charge
    /\ d.processed_entity = out.data.processed_entity

\* the classifications earlier calls returned: the records in the
\* categorizer's buckets and in the mapping of the last run
EarlierRecords ==
    UNION {{categories[c][k] : k \in 1..Len(categories[c])} : c \in DOMAIN categories}
    \cup UNION {{ret.map[c][k] : k \in 1..Len(ret.map[c])} : c \in DOMAIN ret.map}

\* C10: determinism.  A call of categorize_transaction on a row equal in
\* (details, type_desc, type_class, entity) to a row an earlier call classified
\* returns the same category, subcategory, is_charge and processed_entity,
\* whatever the other fields hold and whatever was classified in between.
C10_Determinism ==
    out.called =>
        \A d \in EarlierRecords : SameInputs(d) => (~out.raised /\ SameOutputs(d))

\* a call on a row that differs only in receipt and amount from a row classified
\* by an earlier run, other rows having been classified since
C10_Witness ==
    /\ out.called
    /\ \E d \in EarlierRecords :
          /\ SameInputs(d)
          /\ d.receipt_no # row.receipt_no
          /\ d.paid_in # row.paid_in
          /\ SameOutputs(d)
    /\ \E d \in EarlierRecords : ~SameInputs(d)
    /\ categories # InitCategories

---------------------------------------------------------------------------
(* Properties of the text functions, checked under SpecText *)

\* the last call was fn on a str
CalledOnStr(fn) == call.fn = fn /\ call.arg.t = "str"

\* the text of the last call's argument
A == call.arg.v

\* C21: masked-phone strategy.  For every non-empty entity that contains a
\* run of "*", process_masked_phone returns a pair, split at the first blank:
\* the title-cased text after it and the title-cased phone fragment before it.
C21_MaskedSplit ==
    (CalledOnStr("process_masked_phone") /\ A # "" /\ Contains("*", A)) =>
        /\ ~call.raised
        /\ Contains(" ", A) =>
              /\ call.first = PyStr(Title(SubSeq(A, FirstSpace(A) + 1, Len(A))))
              /\ call.second = PyStr(Title(SubSeq(A, 1, FirstSpace(A) - 1)))

\* C22: masked-phone strategy on clean input.  For an entity without "*" the
\* call returns (title-cased entity, ""); called again on that first element
\* it returns the same pair; an empty entity comes back unchanged with "".
C22_CleanIdempotent ==
    (CalledOnStr("process_masked_phone") /\ ~Contains("*", A)) =>
        /\ ~call.raised
        /\ call.second = PyStr("")
        /\ call.first = PyStr(Title(A))
        /\ A = "" => call.first = PyStr("")
        /\ (prevcall.fn = "process_masked_phone" /\ prevcall.arg.t = "str"
              /\ ~Contains("*", prevcall.arg.v)) =>
                 (call.first = prevcall.first /\ call.second = prevcall.second)

\* a clean lowercase name was normalized, and the result normalized again
C22_Witness ==
    /\ call.fn = "process_masked_phone"
    /\ prevcall.fn = "process_masked_phone"
    /\ prevcall.arg = PyStr("john doe")
    /\ call.arg = PyStr("John Doe")
    /\ call.first = PyStr("John Doe")
    /\ call.second = PyStr("")

\* s has the form "<business name> via <anything> is <suffix>"
HasViaIs(s) == \E i \in 1..Len(s) : ViaIsEnds(s, i) # {}

\* C23: business/via-suffix strategy.  For an entity that does not match
\* "<business name> via <anything> is <suffix>" the call returns the original
\* entity string unchanged and ""; on a match both elements are trimmed.
C23_BusinessNoMatchUnchanged ==
    CalledOnStr("process_business_and_account") =>
        /\ ~call.raised
        /\ ~HasViaIs(A) => (call.first = call.arg /\ call.second = PyStr(""))
        /\ HasViaIs(A) => /\ call.first.v = Strip(call.first.v)
                          /\ call.second.v = Strip(call.second.v)

\* C24: paybill strategy.  For an entity "<business name> Acc. <account>" the
\* call returns (business name, account), trimmed ("Kenya Power Acc. 123456"
\* gives "Kenya Power" and "123456"); for an entity without the " Acc. " part
\* it returns (original string, "").
C24_PaybillNoMatchUnchanged ==
    CalledOnStr("extract_paybill_details") =>
        /\ ~call.raised
        /\ A = "Kenya Power Acc. 123456" =>
              (call.first = PyStr("Kenya Power") /\ call.second = PyStr("123456"))
        /\ Contains(" Acc. ", A) => /\ call.first.v = Strip(call.first.v)
                                    /\ call.second.v = Strip(call.second.v)
        /\ ~Contains(" Acc. ", A) => (call.first = call.arg /\ call.second = PyStr(""))

\* the pair split_details should return when it cuts its text at position h
CutAt(h) ==
    /\ call.first = PyStr(Strip(SubSeq(Str(call.arg), 1, h - 1)))
    /\ call.second = PyStr(Strip(SubSeq(Str(call.arg), h + 1, Len(Str(call.arg)))))

\* C25 as stated: split_details splits at the last standalone hyphen
\* separator: the type phrase is everything before the last one, the entity
\* phrase everything after it; without one it returns (details, details).
C25_SplitAtLast ==
    call.fn = "split_details" =>
        IF Separators(Str(call.arg)) = {}
        THEN call.first = call.arg /\ call.second = call.arg
        ELSE CutAt(Greatest(Separators(Str(call.arg))))

\* C25, amended: split_details splits at the first standalone hyphen
\* separator: the type phrase is everything before the first one, the entity
\* phrase everything after it, later separators included, both trimmed;
\* without one it returns (details, details).
C25_SplitAtFirst ==
    call.fn = "split_details" =>
        IF Separators(Str(call.arg)) = {}
        THEN call.first = call.arg /\ call.second = call.arg
        ELSE CutAt(Least(Separators(Str(call.arg))))

\* a details text with two separators was split, the second one staying in
\* the entity phrase
C25_Witness ==
    /\ call.fn = "split_details"
    /\ call.arg = PyStr("Pay Bill to 12 - KPLC - Acc. 5")
    /\ Cardinality(Separators(Str(call.arg))) = 2
    /\ call.first = PyStr("Pay Bill to 12")
    /\ call.second = PyStr("KPLC - Acc. 5")

\* the number of blanks in s
Blanks(s) == Cardinality({i \in 1..Len(s) : Ch(s, i) = " "})

\* s is the first n characters of t
IsPrefix(s, t) == Len(s) <= Len(t) /\ SubSeq(t, 1, Len(s)) = s

---------------------------------------------------------------------------
(* Properties of the categorizer's buckets, checked under SpecFrame *)

\* the row the record data was built from, entity being its entity cell (the
\* record holds str(entity))
RowOf(data, entity) ==
    [receipt_no |-> data.receipt_no, date_time |-> data.date_time,
     details |-> data.details, paid_in |-> data.paid_in, withdrawn |-> data.withdrawn,
     entity |-> entity, type_class |-> data.type_class, type_desc |-> data.type_desc,
     month |-> data.month, week |-> data.week]

\* every bucket of old is the beginning of the bucket of the same name in new
OnlyAppended(old, new) ==
    /\ DOMAIN old \subseteq DOMAIN new
    /\ \A c \in DOMAIN old :
          /\ Len(old[c]) <= Len(new[c])
          /\ SubSeq(new[c], 1, Len(old[c])) = old[c]

\* a step that makes a categorize_transaction call leaves the buckets and what
\* the runs gave alone, and the row is afterwards what the record was built
\* from; a step that changes the buckets is add_category or the appending
\* loop of categorize_transactions on the categorizer itself
FrameStep ==
    /\ out' # out =>
          /\ categories' = categories
          /\ input' = input /\ ret' = ret /\ before' = before
          /\ row' = RowOf(out'.data, row'.entity)
          /\ out'.data.entity = PyStr(Str(row'.entity))
    /\ categories' # categories =>
          /\ out' = out /\ row' = row
          /\ OnlyAppended(categories, categories')
          /\ \/ \E category_name \in AddedCategories :
                   /\ category_name \notin DOMAIN categories
                   /\ DOMAIN categories' = DOMAIN categories \cup {category_name}
                   /\ categories'[category_name] = <<>>
                   /\ \A c \in DOMAIN categories : categories'[c] = categories[c]
             \/ /\ ret'.via = "method"
                /\ processed' = processed + Len(input')
                /\ DOMAIN categories' = DOMAIN categories
                /\ SumSizes(categories', DOMAIN categories')
                      <= SumSizes(categories, DOMAIN categories) + Len(input')

\* C27: categorize_transaction has no side effect beyond its returned
\* record: it leaves self.categories and the input row unchanged; the buckets
\* change only through the append step of categorize_transactions and through
\* add_category.
C27_NoSideEffect == [][FrameStep]_vars

\* categorize_transaction returned a record while the buckets held an earlier
\* run's rows and an added category, and the record is in none of them
C27_Witness ==
    /\ out.called /\ ~out.raised
    /\ "Fuliza" \in DOMAIN categories
    /\ \E c \in DOMAIN categories : categories[c] # <<>>
    /\ \A c \in DOMAIN categories : \A k \in 1..Len(categories[c]) :
          categories[c][k] # out.data
    /\ row = RowOf(out.data, row.entity)

---------------------------------------------------------------------------
(* Properties of the dashboard, checked under SpecDashboard *)

\* C28: every Analyzer method the dashboard unpacks returns a 6-element
\* tuple on every path, an empty bucket and a bucket of charge rows only
\* included, so the 6-way unpacking never fails.
C28_SixTuples ==
    analysis.kind # "none" =>
        /\ \A i \in 1..Len(Unpacked) : Len(Call(Unpacked[i], analysis.data)) = 6
        /\ analysis.kind = "unpacked"

\* what a step leaves of the toggles: never both on, each one disabled
\* exactly while the other is on, a disabled toggle keeps its value, and when
\* the one that was on goes off both can be switched again
ToggleStep ==
    /\ ~(session'.date_filter /\ session'.month_filter)
    /\ session'.disable.date = session'.month_filter
    /\ session'.disable.month = session'.date_filter
    /\ session.disable.date => session'.date_filter = session.date_filter
    /\ session.disable.month => session'.month_filter = session.month_filter
    /\ (session.date_filter /\ ~session'.date_filter) =>
          (~session'.disable.month /\ ~session'.disable.date)
    /\ (session.month_filter /\ ~session'.month_filter) =>
          (~session'.disable.date /\ ~session'.disable.month)

\* C29: the filter toggles are mutually exclusive.  Starting with both off,
\* after any sequence of toggle changes, each followed by update_toggles and
\* none made on a disabled toggle, the date filter and the month filter are
\* never both on, and turning the active one off re-enables the other.
C29_TogglesExclusive == [][ToggleStep]_vars

\* the month filter is on after a toggle change: the date toggle is shown
\* disabled and the month toggle can be switched off again
C29_Witness ==
    /\ loaded.kind = "mapping"
    /\ session.month_filter /\ ~session.date_filter
    /\ session.disable.date /\ ~session.disable.month
    /\ filtered.called /\ filtered.month_filter # {}

---------------------------------------------------------------------------
(* Properties of filter_categorized_data, checked under SpecFilter *)

RECURSIVE IsSubsequence(_, _)
\* a is b with some of its rows left out, the others in b's order
IsSubsequence(a, b) ==
    IF a = <<>> THEN TRUE
    ELSE IF b = <<>> THEN FALSE
    ELSE IF Head(a) = Head(b) THEN IsSubsequence(Tail(a), Tail(b))
    ELSE IsSubsequence(a, Tail(b))

\* C30: filter_categorized_data returns a mapping with exactly the category
\* keys of its input, for every filter combination; each output bucket is an
\* order-preserving subset of the input bucket; with neither filter set the
\* input is returned unchanged, and with a 2-element date range the month
\* filter is ignored.
C30_FilterKeepsKeys ==
    filtered.called =>
        /\ DOMAIN filtered.map = DOMAIN filtered.input
        /\ \A c \in DOMAIN filtered.input :
              IsSubsequence(filtered.map[c], filtered.input[c])
        /\ (filtered.date_filter = <<>> /\ filtered.month_filter = {}) =>
              filtered.map = filtered.input
        /\ Len(filtered.date_filter) = 2 =>
              \A c \in DOMAIN filtered.input :
                 filtered.map[c] =
                     SelectSeq(filtered.input[c],
                               LAMBDA d : InDateRange(d, filtered.date_filter))

\* a call with a date range and a month filter: the range cut a bucket in
\* two and kept a February row the month filter names not
C30_Witness ==
    /\ filtered.called
    /\ filtered.date_filter = <<6, 41>>
    /\ filtered.month_filter = {"January_2024"}
    /\ DOMAIN filtered.input = CategoryNames
    /\ Len(filtered.input["BuyGoodsPayments"]) = 2
    /\ Len(filtered.map["BuyGoodsPayments"]) = 1
    /\ filtered.map["Deposit"] # <<>>
    /\ filtered.map["Deposit"] = filtered.input["Deposit"]

====
